---- MODULE Spec2Model ----
(***************************************************************************)
(* Framework-agnostic controller behind two route adapters (Express and    *)
(* Fastify).  One CommonController is bound by expressRouteAdapter and     *)
(* fastifyRouteAdapter to a transport handler; each server registers       *)
(* POST /greet as  simpleMiddleware -> adapter handler.                    *)
(*                                                                         *)
(* An invocation is one request/reply cycle.  Its handler is an async      *)
(* function with a single suspension point, the await on                   *)
(* controller.handle, so any number of invocations may be suspended there  *)
(* and resume in any order.                                                *)
(***************************************************************************)
EXTENDS Integers, Sequences, FiniteSets

VARIABLES
    controller,     \* the controller instance the adapters are bound to
    pc,             \* pc[i]: position of invocation i
    transport,      \* transport[i]: "express" | "fastify" | "none"
    req,            \* req[i]: the transport's raw request object
    httpRequest,    \* httpRequest[i]: the HttpRequest the handler assembled
    promise,        \* promise[i]: the promise controller.handle returned
    res,            \* res[i]: the transport's reply object
    handlerPromise  \* handlerPromise[i]: the promise of the handler itself

vars == <<controller, pc, transport, req, httpRequest, promise, res, handlerPromise>>

\* Number of invocations that may be in flight together.
MaxInFlight == 2

Slots == 1..MaxInFlight

Transports == {"express", "fastify"}

(***************************************************************************)
(* JavaScript values.  Every value is a record of the same shape: t is the *)
(* typeof tag, s the text of a string / number / boolean, f the own        *)
(* properties of an object as a set of <<key, value>> pairs.               *)
(***************************************************************************)
Undefined == [t |-> "undefined", s |-> "", f |-> {}]

Null == [t |-> "null", s |-> "", f |-> {}]

Str(x) == [t |-> "string", s |-> x, f |-> {}]

Num(x) == [t |-> "number", s |-> x, f |-> {}]

Obj(fields) == [t |-> "object", s |-> "", f |-> fields]

\* v === undefined || v === null
Nullish(v) == v.t \in {"undefined", "null"}

\* Boolean(v): the values an `if` or an `||` takes as true.
Truthy(v) ==
    ~ \/ Nullish(v)
      \/ (v.t = "string" /\ v.s = "")
      \/ (v.t = "number" /\ v.s \in {"0", "NaN"})
      \/ (v.t = "boolean" /\ v.s = "false")

\* String(v), as a template literal `${v}` and .toString() compute it.
JsString(v) ==
    CASE v.t \in {"string", "number", "boolean"} -> v.s
      [] v.t = "object" -> "[object Object]"
      [] v.t = "null" -> "null"
      [] OTHER -> "undefined"

\* o.k for a value o that is neither undefined nor null: the own property,
\* or undefined (a primitive has no property of these names).
Get(o, k) ==
    IF o.t = "object" /\ \E p \in o.f : p[1] = k
    THEN (CHOOSE p \in o.f : p[1] = k)[2]
    ELSE Undefined

\* o?.k
OptGet(o, k) == IF Nullish(o) THEN Undefined ELSE Get(o, k)

(***************************************************************************)
(* Promises.                                                               *)
(***************************************************************************)
NoResponse == [statusCode |-> -1, body |-> Undefined]

NoPromise == [state |-> "none", value |-> NoResponse, error |-> ""]

Fulfilled(v) == [state |-> "fulfilled", value |-> v, error |-> ""]

Rejected(e) == [state |-> "rejected", value |-> NoResponse, error |-> e]

(***************************************************************************)
(* CommonController.handle.  Reading httpRequest.body.name of a body that  *)
(* is undefined or null throws a TypeError, which an async method turns    *)
(* into a rejected promise.                                                *)
(***************************************************************************)
\* handle testing the name against undefined instead of for truthiness.
handleNameDefined(hr) ==
    IF Nullish(hr.body)
    THEN Rejected("TypeError")
    ELSE IF Get(hr.body, "name") # Undefined
         THEN Fulfilled([statusCode |-> 200,
                         body |-> Obj({<<"message",
                             Str("Hello, " \o JsString(Get(hr.body, "name")) \o "!")>>})])
         ELSE Fulfilled([statusCode |-> 400,
                         body |-> Obj({<<"message", Str("Name is required")>>})])

handle(hr) ==
    IF Nullish(hr.body)
    THEN Rejected("TypeError")
    ELSE IF Truthy(Get(hr.body, "name"))
         THEN Fulfilled([statusCode |-> 200,
                         body |-> Obj({<<"message",
                             Str("Hello, " \o JsString(Get(hr.body, "name")) \o "!")>>})])
         ELSE Fulfilled([statusCode |-> 400,
                         body |-> Obj({<<"message", Str("Name is required")>>})])

\* The controller bound to the adapters.
CommonController == [kind |-> "common", result |-> NoPromise]

\* controller.handle(httpRequest): CommonController's method, or the
\* programmed result of a controller that stands in for it.
ControllerHandle(c, hr) == IF c.kind = "common" THEN handle(hr) ELSE c.result

(***************************************************************************)
(* simpleMiddleware of each server.                                        *)
(***************************************************************************)
HeaderString(headers, k) ==
    IF Nullish(Get(headers, k)) THEN Undefined ELSE Str(JsString(Get(headers, k)))

\* simpleMiddleware without the `|| "default"`.
expressSimpleMiddlewareNoDefault(r) ==
    [r EXCEPT !.userId = HeaderString(r.headers, "userid"),
              !.workspaceId = HeaderString(r.headers, "workspaceid")]

expressSimpleMiddleware(r) ==
    [r EXCEPT !.userId = IF Truthy(HeaderString(r.headers, "userid"))
                         THEN HeaderString(r.headers, "userid")
                         ELSE Str("default"),
              !.workspaceId = HeaderString(r.headers, "workspaceid")]

fastifySimpleMiddleware(r) ==
    [r EXCEPT !.userId = IF Truthy(HeaderString(r.headers, "userid"))
                         THEN HeaderString(r.headers, "userid")
                         ELSE Str("default"),
              !.workspaceId = HeaderString(r.headers, "workspaceid")]

(***************************************************************************)
(* The reply object: what the handler has called on it so far.             *)
(***************************************************************************)
NewReply == [statusWrites |-> 0, bodyWrites |-> 0, status |-> -1,
             body |-> Undefined, method |-> "none"]

\* res.status(code) / reply.status(code)
SetStatus(r, code) == [r EXCEPT !.statusWrites = @ + 1, !.status = code]

\* res.json(body)
Json(r, body) == [r EXCEPT !.bodyWrites = @ + 1, !.body = body, !.method = "json"]

\* reply.send(body)
Send(r, body) == [r EXCEPT !.bodyWrites = @ + 1, !.body = body, !.method = "send"]

(***************************************************************************)
(* expressRouteAdapter(controller): the handler's three parts.             *)
(***************************************************************************)
expressHttpRequest(r) ==
    [body |-> r.body, params |-> r.params, headers |-> r.headers,
     userId |-> r.userId, workspaceId |-> r.workspaceId]

\* The success branch falling through into the error branch (no else).
expressRespondNoElse(r, httpResponse) ==
    LET first == IF httpResponse.statusCode >= 200 /\ httpResponse.statusCode <= 299
                 THEN Json(SetStatus(r, httpResponse.statusCode), httpResponse.body)
                 ELSE r
    IN Json(SetStatus(first, httpResponse.statusCode),
            Obj({<<"error", OptGet(httpResponse.body, "message")>>}))

\* The upper end of the success range tested with < instead of <=.
expressRespondBelow299(r, httpResponse) ==
    IF httpResponse.statusCode >= 200 /\ httpResponse.statusCode < 299
    THEN Json(SetStatus(r, httpResponse.statusCode), httpResponse.body)
    ELSE Json(SetStatus(r, httpResponse.statusCode),
              Obj({<<"error", OptGet(httpResponse.body, "message")>>}))

expressRespond(r, httpResponse) ==
    IF httpResponse.statusCode >= 200 /\ httpResponse.statusCode <= 299
    THEN Json(SetStatus(r, httpResponse.statusCode), httpResponse.body)
    ELSE Json(SetStatus(r, httpResponse.statusCode),
              Obj({<<"error", OptGet(httpResponse.body, "message")>>}))

\* The handler with a try/catch that answers a rejection with a 400.
expressResumeCatch(r, p) ==
    IF p.state = "rejected"
    THEN [res |-> Json(SetStatus(r, 400), Obj({<<"error", Str(p.error)>>})),
          settled |-> "fulfilled", error |-> ""]
    ELSE [res |-> expressRespond(r, p.value), settled |-> "fulfilled", error |-> ""]

\* The handler from its await on: a rejection is not caught, so the handler's
\* own promise rejects with the same error and the reply is left untouched.
expressResume(r, p) ==
    IF p.state = "rejected"
    THEN [res |-> r, settled |-> "rejected", error |-> p.error]
    ELSE [res |-> expressRespond(r, p.value), settled |-> "fulfilled", error |-> ""]

(***************************************************************************)
(* fastifyRouteAdapter(controller).                                        *)
(***************************************************************************)
fastifyHttpRequest(r) ==
    [body |-> r.body, params |-> r.params, headers |-> r.headers,
     userId |-> r.userId, workspaceId |-> r.workspaceId]

\* The error branch sending the body as it is, without the error envelope.
fastifyRespondBareError(r, httpResponse) ==
    IF httpResponse.statusCode >= 200 /\ httpResponse.statusCode <= 299
    THEN Send(SetStatus(r, httpResponse.statusCode), httpResponse.body)
    ELSE Send(SetStatus(r, httpResponse.statusCode), httpResponse.body)

\* The error envelope used for 4xx and above only.
fastifyRespondFrom400(r, httpResponse) ==
    IF httpResponse.statusCode < 400
    THEN Send(SetStatus(r, httpResponse.statusCode), httpResponse.body)
    ELSE Send(SetStatus(r, httpResponse.statusCode),
              Obj({<<"error", OptGet(httpResponse.body, "message")>>}))

fastifyRespond(r, httpResponse) ==
    IF httpResponse.statusCode >= 200 /\ httpResponse.statusCode <= 299
    THEN Send(SetStatus(r, httpResponse.statusCode), httpResponse.body)
    ELSE Send(SetStatus(r, httpResponse.statusCode),
              Obj({<<"error", OptGet(httpResponse.body, "message")>>}))

fastifyResume(r, p) ==
    IF p.state = "rejected"
    THEN [res |-> r, settled |-> "rejected", error |-> p.error]
    ELSE [res |-> fastifyRespond(r, p.value), settled |-> "fulfilled", error |-> ""]

(***************************************************************************)
(* Inbound requests.                                                       *)
(***************************************************************************)
NoRequest == [body |-> Undefined, params |-> Undefined, headers |-> Undefined,
              userId |-> Undefined, workspaceId |-> Undefined]

Inbound(body, headers) ==
    [body |-> body, params |-> Obj({}), headers |-> headers,
     userId |-> Undefined, workspaceId |-> Undefined]

\* Bodies a body parser may hand over: none (no payload), the JSON values
\* null, a string and a number, and objects with and without a name.
Bodies ==
    { Undefined,
      Null,
      Str("Ada"),
      Num("7"),
      Obj({}),
      Obj({<<"name", Str("")>>}),
      Obj({<<"name", Str("Ada")>>}),
      Obj({<<"name", Str("Bob")>>, <<"title", Str("Dr")>>}),
      Obj({<<"name", Num("0")>>}) }

HeaderSets ==
    { Obj({}),
      Obj({<<"userid", Str("u1")>>}),
      Obj({<<"userid", Str("")>>, <<"workspaceid", Str("w1")>>}),
      Obj({<<"userid", Str("u1")>>, <<"workspaceid", Str("w1")>>}) }

\* What each server can receive.  express.json() hands over an object (it
\* refuses a payload that is no object at its top level, and a request
\* without payload gets {}); Fastify hands over any JSON value, and no body
\* at all for a request without payload.
RawRequests(t) ==
    {Inbound(b, Obj({})) : b \in IF t = "express" THEN {b \in Bodies : b.t = "object"}
                                 ELSE Bodies}
        \cup {Inbound(Obj({<<"name", Str("Ada")>>}), h) : h \in HeaderSets}

(***************************************************************************)
(* The servers: POST /greet -> simpleMiddleware -> adapter handler.        *)
(***************************************************************************)
Init ==
    /\ controller = CommonController
    /\ pc = [i \in Slots |-> "idle"]
    /\ transport = [i \in Slots |-> "none"]
    /\ req = [i \in Slots |-> NoRequest]
    /\ httpRequest = [i \in Slots |-> NoRequest]
    /\ promise = [i \in Slots |-> NoPromise]
    /\ res = [i \in Slots |-> NewReply]
    /\ handlerPromise = [i \in Slots |-> [state |-> "none", error |-> ""]]

\* The i-th request reaches one of the two servers.
Arrive(i) ==
    /\ pc[i] = "idle"
    /\ \A j \in Slots : j < i => pc[j] # "idle"
    /\ \E t \in Transports : \E r \in RawRequests(t) :
        /\ transport' = [transport EXCEPT ![i] = t]
        /\ req' = [req EXCEPT ![i] = r]
    /\ pc' = [pc EXCEPT ![i] = "arrived"]
    /\ UNCHANGED <<controller, httpRequest, promise, res, handlerPromise>>

\* simpleMiddleware runs and calls next() / done().
Middleware(i) ==
    /\ pc[i] = "arrived"
    /\ req' = [req EXCEPT ![i] = IF transport[i] = "express"
                                 THEN expressSimpleMiddleware(req[i])
                                 ELSE fastifySimpleMiddleware(req[i])]
    /\ pc' = [pc EXCEPT ![i] = "ready"]
    /\ UNCHANGED <<controller, transport, httpRequest, promise, res, handlerPromise>>

\* The handler up to its await: it assembles the HttpRequest and calls
\* controller.handle, which runs to its return.
Call(i, r) ==
    LET hr == IF transport'[i] = "express" THEN expressHttpRequest(r)
              ELSE fastifyHttpRequest(r)
    IN /\ httpRequest' = [httpRequest EXCEPT ![i] = hr]
       /\ promise' = [promise EXCEPT ![i] = ControllerHandle(controller, hr)]
       /\ handlerPromise' = [handlerPromise EXCEPT ![i] = [state |-> "pending", error |-> ""]]
       /\ pc' = [pc EXCEPT ![i] = "awaiting"]

HandlerStart(i) ==
    /\ pc[i] = "ready"
    /\ UNCHANGED <<controller, transport, req, res>>
    /\ Call(i, req[i])

\* The handler keeping httpResponse in a variable of the factory's scope,
\* shared by every invocation: it resumes with the result of any call made.
HandlerResumeShared(i) ==
    /\ pc[i] = "awaiting"
    /\ \E j \in Slots :
        /\ pc[j] \in {"awaiting", "done"}
        /\ LET out == IF transport[i] = "express" THEN expressResume(res[i], promise[j])
                      ELSE fastifyResume(res[i], promise[j])
           IN /\ res' = [res EXCEPT ![i] = out.res]
              /\ handlerPromise' = [handlerPromise EXCEPT
                                      ![i] = [state |-> out.settled, error |-> out.error]]
              /\ pc' = [pc EXCEPT ![i] = "done"]
    /\ UNCHANGED <<controller, transport, req, httpRequest, promise>>

\* The handler from its await to its end.
HandlerResume(i) ==
    /\ pc[i] = "awaiting"
    /\ LET out == IF transport[i] = "express" THEN expressResume(res[i], promise[i])
                  ELSE fastifyResume(res[i], promise[i])
       IN /\ res' = [res EXCEPT ![i] = out.res]
          /\ handlerPromise' = [handlerPromise EXCEPT
                                  ![i] = [state |-> out.settled, error |-> out.error]]
          /\ pc' = [pc EXCEPT ![i] = "done"]
    /\ UNCHANGED <<controller, transport, req, httpRequest, promise>>

Next ==
    \E i \in Slots :
        \/ Arrive(i)
        \/ Middleware(i)
        \/ HandlerStart(i)
        \/ HandlerResume(i)

Spec == Init /\ [][Next]_vars

(***************************************************************************)
(* The adapters on their own: a handler made by expressRouteAdapter or     *)
(* fastifyRouteAdapter from any controller, called directly with a raw     *)
(* request.  The controller's handle resolves with any response or rejects.*)
(***************************************************************************)
StubStatuses == {0, 199, 200, 204, 299, 300, 404, 1000}

StubBodies ==
    { Obj({<<"message", Str("m")>>}),
      Obj({<<"message", Str("boom")>>, <<"detail", Str("stack")>>}),
      Obj({}),
      Undefined,
      Str("plain") }

StubControllers ==
    {[kind |-> "stub", result |-> Fulfilled([statusCode |-> c, body |-> b])] :
        c \in StubStatuses, b \in StubBodies}
        \cup {[kind |-> "stub", result |-> Rejected("Error")]}

AdapterRequests ==
    { Inbound(Obj({<<"name", Str("Ada")>>}), Obj({})),
      [Inbound(Undefined, Obj({<<"userid", Str("u1")>>}))
          EXCEPT !.userId = Str("u1"), !.workspaceId = Str("w1")] }

InitAdapter ==
    /\ controller \in StubControllers
    /\ pc = [i \in Slots |-> "idle"]
    /\ transport = [i \in Slots |-> "none"]
    /\ req = [i \in Slots |-> NoRequest]
    /\ httpRequest = [i \in Slots |-> NoRequest]
    /\ promise = [i \in Slots |-> NoPromise]
    /\ res = [i \in Slots |-> NewReply]
    /\ handlerPromise = [i \in Slots |-> [state |-> "none", error |-> ""]]

\* The handler of one adapter is called with a raw request and a new reply.
Invoke(i) ==
    /\ pc[i] = "idle"
    /\ \A j \in Slots : j < i => pc[j] # "idle"
    /\ \E t \in Transports, r \in AdapterRequests :
        /\ transport' = [transport EXCEPT ![i] = t]
        /\ req' = [req EXCEPT ![i] = r]
        /\ Call(i, r)
    /\ UNCHANGED <<controller, res>>

NextAdapter ==
    \E i \in Slots :
        \/ Invoke(i)
        \/ HandlerResume(i)

SpecAdapter == InitAdapter /\ [][NextAdapter]_vars

(***************************************************************************)
(* Properties.                                                             *)
(***************************************************************************)
\* Invocation i has called controller.handle.
Called(i) == pc[i] \in {"awaiting", "done"}

\* Invocation i has run to its end with handle resolved / rejected.
Replied(i) == pc[i] = "done" /\ promise[i].state = "fulfilled"

Failed(i) == pc[i] = "done" /\ promise[i].state = "rejected"

Message(text) == Obj({<<"message", Str(text)>>})

HasHeader(r, k) == \E p \in r.headers.f : p[1] = k

\* C1: whenever handle returns, a name that is a non-empty string S gives
\* 200 with message "Hello, S!", a name that is absent, empty or otherwise
\* falsy gives 400 with message "Name is required", and nothing but one of
\* these two shapes is ever returned.
C1_HandleGreetsOrRequiresName ==
    \A i \in Slots :
        (Called(i) /\ promise[i].state = "fulfilled") =>
            LET name == Get(httpRequest[i].body, "name")
                r == promise[i].value
            IN /\ (name.t = "string" /\ name.s # "") =>
                      (r.statusCode = 200 /\ r.body = Message("Hello, " \o name.s \o "!"))
               /\ (name \in {Undefined, Null, Str(""), Num("0")}) =>
                      (r.statusCode = 400 /\ r.body = Message("Name is required"))
               /\ \/ r.statusCode = 200 /\ r.body = Message("Hello, " \o JsString(name) \o "!")
                  \/ r.statusCode = 400 /\ r.body = Message("Name is required")

\* One invocation greeted by name and another refused for an empty name.
C1_Witness ==
    \E i, j \in Slots :
        /\ Called(i) /\ Get(httpRequest[i].body, "name") = Str("Ada")
        /\ promise[i].value.statusCode = 200
        /\ Called(j) /\ Get(httpRequest[j].body, "name") = Str("")
        /\ promise[j].value.statusCode = 400

\* C2: the same raw request through the Express handler and through the
\* Fastify handler gives the controller the same HttpRequest, and the two
\* handlers end the same way with the same status and the same body written.
C2_AdaptersInterchangeable ==
    \A i, j \in Slots :
        (transport[i] = "express" /\ transport[j] = "fastify"
            /\ Called(i) /\ Called(j) /\ req[i] = req[j]) =>
                /\ httpRequest[i] = httpRequest[j]
                /\ promise[i] = promise[j]
                /\ (pc[i] = "done" /\ pc[j] = "done") =>
                      /\ handlerPromise[i] = handlerPromise[j]
                      /\ res[i].statusWrites = res[j].statusWrites
                      /\ res[i].bodyWrites = res[j].bodyWrites
                      /\ res[i].status = res[j].status
                      /\ res[i].body = res[j].body

\* The same refused request answered by both adapters.
C2_Witness ==
    \E i, j \in Slots :
        /\ transport[i] = "express" /\ transport[j] = "fastify"
        /\ req[i] = req[j]
        /\ Replied(i) /\ Replied(j)
        /\ res[i].status = 400

\* C3: an invocation whose handle resolved has, once it ended, written the
\* status exactly once and the body exactly once, and never more in any
\* later state; before its handler resumes from the await it has written
\* nothing.
C3_ExactlyOneWrite ==
    \A i \in Slots :
        /\ Replied(i) => (res[i].statusWrites = 1 /\ res[i].bodyWrites = 1)
        /\ pc[i] # "done" => (res[i].statusWrites = 0 /\ res[i].bodyWrites = 0)

\* A success reply written by the Express handler while another invocation
\* has ended too.
C3_Witness ==
    \E i, j \in Slots :
        /\ i # j
        /\ transport[i] = "express" /\ Replied(i) /\ res[i].status = 200
        /\ Replied(j)

\* C4: for any response with 200 <= statusCode <= 299 the handler writes
\* that status and the response body itself.
C4_SuccessBodyUnchanged ==
    \A i \in Slots :
        (Replied(i) /\ promise[i].value.statusCode >= 200
                    /\ promise[i].value.statusCode <= 299) =>
            /\ res[i].status = promise[i].value.statusCode
            /\ res[i].body = promise[i].value.body

\* The Express handler has answered a 299 whose body has two fields.
C4_Witness ==
    \E i \in Slots :
        /\ transport[i] = "express" /\ Replied(i)
        /\ promise[i].value.statusCode = 299
        /\ Cardinality(promise[i].value.body.f) = 2
        /\ res[i].status = 299

\* C5: for any response with statusCode outside 200..299 the handler writes
\* that status and the body {error: message}, message being the message of
\* the response body, and nothing else of that body.
C5_ErrorEnvelope ==
    \A i \in Slots :
        (Replied(i) /\ (promise[i].value.statusCode < 200
                        \/ promise[i].value.statusCode > 299)) =>
            /\ res[i].status = promise[i].value.statusCode
            /\ res[i].body.t = "object"
            /\ \A p \in res[i].body.f : p[1] = "error"
            /\ Get(res[i].body, "error") =
                   (IF promise[i].value.body.t = "object"
                    THEN Get(promise[i].value.body, "message") ELSE Undefined)
            /\ Cardinality(res[i].body.f) = 1

\* The Fastify handler has answered a 300 whose body carried a detail
\* besides its message, and the detail is gone.
C5_Witness ==
    \E i \in Slots :
        /\ transport[i] = "fastify" /\ Replied(i)
        /\ promise[i].value.statusCode = 300
        /\ Get(promise[i].value.body, "detail") = Str("stack")
        /\ res[i].body = Obj({<<"error", Str("boom")>>})

\* C6: handle never rejects, and a body that is not a mapping is answered
\* with 400 "Name is required".
C6_HandleNeverRejects ==
    \A i \in Slots :
        Called(i) =>
            /\ promise[i].state = "fulfilled"
            /\ httpRequest[i].body.t # "object" =>
                  /\ promise[i].value.statusCode = 400
                  /\ promise[i].value.body = Message("Name is required")

\* C7: the HttpRequest given to handle always has a body that is a mapping.
C7_BodyAlwaysMapping ==
    \A i \in Slots : Called(i) => httpRequest[i].body.t = "object"

\* C8 as stated: userId is the userid header when the header is present
\* and "default" when it is absent; workspaceId is the workspaceid header
\* when present and undefined when absent.
C8_UserIdIsHeaderWhenPresent ==
    \A i \in Slots :
        Called(i) =>
            /\ httpRequest[i].userId =
                   (IF HasHeader(req[i], "userid") THEN Get(req[i].headers, "userid")
                    ELSE Str("default"))
            /\ httpRequest[i].workspaceId =
                   (IF HasHeader(req[i], "workspaceid")
                    THEN Get(req[i].headers, "workspaceid") ELSE Undefined)

\* C8 amended: userId is the userid header when the header is present and
\* not empty, and "default" when it is absent or empty; workspaceId is the
\* workspaceid header when present and undefined when absent.  The handler
\* reads both only after the middleware has set them.
C8_UserIdIsHeaderWhenNotEmpty ==
    \A i \in Slots :
        Called(i) =>
            /\ httpRequest[i].userId =
                   (IF HasHeader(req[i], "userid") /\ Get(req[i].headers, "userid").s # ""
                    THEN Get(req[i].headers, "userid") ELSE Str("default"))
            /\ httpRequest[i].workspaceId =
                   (IF HasHeader(req[i], "workspaceid")
                    THEN Get(req[i].headers, "workspaceid") ELSE Undefined)

\* One request with userid u1 and no workspaceid, another with no userid.
C8_Witness ==
    \E i, j \in Slots :
        /\ Called(i) /\ req[i].headers = Obj({<<"userid", Str("u1")>>})
        /\ httpRequest[i].userId = Str("u1") /\ httpRequest[i].workspaceId = Undefined
        /\ Called(j) /\ ~ HasHeader(req[j], "userid")
        /\ httpRequest[j].userId = Str("default")

\* What the request r produces on transport t when it is handled alone.
Alone(t, r) ==
    LET raw == [r EXCEPT !.userId = Undefined, !.workspaceId = Undefined]
    IN IF t = "express"
       THEN expressResume(NewReply,
                handle(expressHttpRequest(expressSimpleMiddleware(raw))))
       ELSE fastifyResume(NewReply,
                handle(fastifyHttpRequest(fastifySimpleMiddleware(raw))))

\* C9: however the invocations interleave at their await, the reply of an
\* invocation that has ended holds what its own request produces when it is
\* handled alone, and the reply of an invocation that has not ended holds
\* nothing.
C9_RepliesIndependent ==
    \A i \in Slots :
        /\ pc[i] = "done" =>
              /\ res[i] = Alone(transport[i], req[i]).res
              /\ handlerPromise[i].state = Alone(transport[i], req[i]).settled
        /\ pc[i] # "done" => res[i] = NewReply

\* The second invocation has ended with a 400 while the first, which will
\* be greeted, is still suspended at its await.
C9_Witness ==
    /\ pc[1] = "awaiting" /\ promise[1].value.statusCode = 200
    /\ Replied(2) /\ res[2].status = 400

\* C10: when handle rejects, the handler's promise rejects with the same
\* error and nothing is written to the reply.
C10_RejectionPropagates ==
    \A i \in Slots :
        Failed(i) =>
            /\ handlerPromise[i] = [state |-> "rejected", error |-> promise[i].error]
            /\ res[i] = NewReply

\* The Express handler has ended on a controller that rejected.
C10_Witness ==
    \E i \in Slots :
        /\ transport[i] = "express" /\ Failed(i)
        /\ handlerPromise[i].error = "Error"

====
